---- MODULE Spec2Model ----
(***************************************************************************)
(* Model of the details-page layer of the package documentation site       *)
(* (internal/frontend/details.go):                                         *)
(*   - fetchPackageOrModule, the fetch-with-fallback state machine;        *)
(*   - parseDetailsURLPath, the URL path resolver;                         *)
(*   - createModule / license.AreRedistributable, the redistributability   *)
(*     verdict.                                                            *)
(* Strings that the code takes apart (URL paths, license file paths) are   *)
(* sequences of tokens; a token is a run of characters that the code       *)
(* never splits, or one of the separators "/" and "@".                     *)
(***************************************************************************)
EXTENDS Integers, Sequences, FiniteSets, TLC

VARIABLES
    \* fetchPackageOrModule: arguments, locals and position
    pc, namespace, path, version,
    \* the DataSource behind ds.IsExcluded and the get callback
    dsExcluded, dsGet,
    \* calls made so far, and the returned (code, *errorPage)
    exclCalls, getLog, code, epage,
    \* parseDetailsURLPath: argument and returned tuple
    urlPath, parsed,
    \* createModule: argument licmetas and the returned *Module
    licmetas, module,
    \* servePackagePage and handleModuleDetails from the tab selection on:
    \* position, namespace, r.FormValue("tab"), pkg.IsRedistributable(), and
    \* whether the DataSource behind the detail fetchers fails
    hpc, hns, tabParam, pkgRedist, fetchAnswer,
    \* their locals tab, settings, canShowDetails and details, the calls of
    \* detail fetchers made so far, and what was served
    tab, settings, canShowDetails, details, fetchLog, served,
    \* constructPackageURL: arguments, and whether it has returned its URL
    \* (in urlPath, which parseDetailsURLPath is then called on)
    pkgPathArg, modulePathArg, versionArg, urlBuilt

fetchVars == <<pc, namespace, path, version, dsExcluded, dsGet,
               exclCalls, getLog, code, epage>>
parseVars == <<urlPath, parsed>>
licenseVars == <<licmetas, module>>
pageVars == <<hpc, hns, tabParam, pkgRedist, fetchAnswer,
              tab, settings, canShowDetails, details, fetchLog, served>>
urlVars == <<pkgPathArg, modulePathArg, versionArg, urlBuilt>>
vars == <<fetchVars, parseVars, licenseVars, pageVars, urlVars>>

----------------------------------------------------------------------------
(* Bounds of the model *)

\* longest URL path, in tokens, leading "/" included
MaxLen == 6
\* most license records of one module
MaxLicenses == 3

----------------------------------------------------------------------------
(* Constants of the program *)

\* internal.LatestVersion
LatestVersion == "latest"
\* const unknownModulePath
unknownModulePath == <<"<unknown>">>
\* stdlib.ModulePath
stdlibModulePath == <<"std">>

StatusOK == 200
StatusSeeOther == 303
StatusBadRequest == 400
StatusNotFound == 404
StatusInternalServerError == 500

\* the code before fetchPackageOrModule has returned
NoCode == 0

----------------------------------------------------------------------------
(* fetchPackageOrModule *)

\* versions requested in the model; semver.IsValid accepts ValidSemvers
ValidSemvers == {"v1.2.3", "v1.0.0-beta"}
InvalidVersions == {"1.2.3", "master", ""}
Versions == {LatestVersion} \cup ValidSemvers \cup InvalidVersions

IsValid(v) == v \in ValidSemvers

Namespaces == {"pkg", "mod"}
Paths == {"x.y/std", "std"}

\* what ds.IsExcluded(ctx, path) returns: (true, nil), (false, nil), (_, err)
ExcludedAnswers == {"excluded", "notExcluded", "error"}
\* what get(v) returns: nil, an error that Is derrors.NotFound, another error
GetAnswers == {"nil", "NotFound", "otherError"}

\* a nil *errorPage
NilPage == [isNil |-> TRUE]

\* &errorPage{Message: fmt.Sprintf("%q is not a valid semantic version.", version)}
\* with SecondaryMessage = suggestedSearch(path) in the "pkg" namespace
InvalidVersionPage(ns, p, v) ==
    [isNil |-> FALSE,
     Message |-> <<"%q is not a valid semantic version.", v>>,
     SecondaryMessage |-> IF ns = "pkg" THEN <<"suggestedSearch", p>> ELSE <<>>]

\* the errorPage of lines 224-234: another version exists
OtherVersionsPage(ns, p, v) ==
    LET word == IF ns = "mod" THEN "module" ELSE "package"
        urlp == IF ns = "mod" THEN <<"/mod/", p>> ELSE <<"/", p>>
    IN [isNil |-> FALSE,
        Message |-> <<"%s %s@%s is not available.", word, p, v>>,
        SecondaryMessage |-> <<"There are other versions of this %s", word, urlp,
                               "?tab=versions">>]

FetchIdle ==
    /\ pc = "idle"
    /\ namespace = "" /\ path = "" /\ version = ""
    /\ dsExcluded = "notExcluded"
    /\ dsGet = [v \in {} |-> "nil"]
    /\ exclCalls = 0 /\ getLog = <<>>
    /\ code = NoCode /\ epage = NilPage

FetchInit ==
    /\ pc = "Validating"
    /\ namespace \in Namespaces
    /\ path \in Paths
    /\ version \in Versions
    /\ dsExcluded \in ExcludedAnswers
    /\ dsGet \in [{version, LatestVersion} -> GetAnswers]
    /\ exclCalls = 0 /\ getLog = <<>>
    /\ code = NoCode /\ epage = NilPage

Return(c, e) ==
    /\ pc' = "done"
    /\ code' = c
    /\ epage' = e

\* Faulty variant of Validating: an empty version is taken for "no version"
\* and let through.
ValidatingEmptyAsLatest ==
    /\ pc = "Validating"
    /\ IF version # "" /\ version # LatestVersion /\ ~IsValid(version)
       THEN Return(StatusBadRequest, InvalidVersionPage(namespace, path, version))
       ELSE pc' = "CheckExcluded" /\ UNCHANGED <<code, epage>>
    /\ UNCHANGED <<namespace, path, version, dsExcluded, dsGet, exclCalls, getLog>>

\* lines 178-186: the version check
Validating ==
    /\ pc = "Validating"
    /\ IF version # LatestVersion /\ ~IsValid(version)
       THEN Return(StatusBadRequest, InvalidVersionPage(namespace, path, version))
       ELSE pc' = "CheckExcluded" /\ UNCHANGED <<code, epage>>
    /\ UNCHANGED <<namespace, path, version, dsExcluded, dsGet, exclCalls, getLog>>

\* Faulty variant of CheckExcluded: the exclusion is reported to the caller.
CheckExcludedRevealed ==
    /\ pc = "CheckExcluded"
    /\ exclCalls' = exclCalls + 1
    /\ IF dsExcluded = "error"
       THEN Return(StatusInternalServerError, NilPage)
       ELSE IF dsExcluded = "excluded"
       THEN Return(StatusNotFound,
                   [isNil |-> FALSE, Message |-> <<"%s is excluded.", path>>,
                    SecondaryMessage |-> <<>>])
       ELSE pc' = "Lookup" /\ UNCHANGED <<code, epage>>
    /\ UNCHANGED <<namespace, path, version, dsExcluded, dsGet, getLog>>

\* lines 188-195: ds.IsExcluded
CheckExcluded ==
    /\ pc = "CheckExcluded"
    /\ exclCalls' = exclCalls + 1
    /\ IF dsExcluded = "error"
       THEN Return(StatusInternalServerError, NilPage)
       ELSE IF dsExcluded = "excluded"
       THEN Return(StatusNotFound, NilPage)
       ELSE pc' = "Lookup" /\ UNCHANGED <<code, epage>>
    /\ UNCHANGED <<namespace, path, version, dsExcluded, dsGet, getLog>>

\* Faulty variant of Lookup: the latest-version test comes before the
\* not-found test, so any failure of a specific version is retried.
LookupRetriesOnAnyError ==
    /\ pc = "Lookup"
    /\ getLog' = Append(getLog, version)
    /\ LET err == dsGet[version] IN
       IF err = "nil"
       THEN Return(StatusOK, NilPage)
       ELSE IF version # LatestVersion
       THEN pc' = "RetryLatest" /\ UNCHANGED <<code, epage>>
       ELSE IF err # "NotFound"
       THEN Return(StatusInternalServerError, NilPage)
       ELSE Return(StatusNotFound, NilPage)
    /\ UNCHANGED <<namespace, path, version, dsExcluded, dsGet, exclCalls>>

\* lines 197-212: get(version)
Lookup ==
    /\ pc = "Lookup"
    /\ getLog' = Append(getLog, version)
    /\ LET err == dsGet[version] IN
       IF err = "nil"
       THEN Return(StatusOK, NilPage)
       ELSE IF err # "NotFound"
       THEN Return(StatusInternalServerError, NilPage)
       ELSE IF version = LatestVersion
       THEN Return(StatusNotFound, NilPage)
       ELSE pc' = "RetryLatest" /\ UNCHANGED <<code, epage>>
    /\ UNCHANGED <<namespace, path, version, dsExcluded, dsGet, exclCalls>>

\* Faulty variant of RetryLatest: a failure of the second get that is not
\* not-found is reported as an internal error, as for the first get.
RetryLatestPropagatesError ==
    /\ pc = "RetryLatest"
    /\ getLog' = Append(getLog, LatestVersion)
    /\ IF dsGet[LatestVersion] = "otherError"
       THEN Return(StatusInternalServerError, NilPage)
       ELSE IF dsGet[LatestVersion] # "nil"
       THEN Return(StatusNotFound, NilPage)
       ELSE Return(StatusSeeOther, OtherVersionsPage(namespace, path, version))
    /\ UNCHANGED <<namespace, path, version, dsExcluded, dsGet, exclCalls>>

\* Faulty variant of RetryLatest: a second get that fails with an error other
\* than not-found is taken for transient and tried again.
RetryLatestAgainOnError ==
    /\ pc = "RetryLatest"
    /\ getLog' = Append(getLog, LatestVersion)
    /\ IF dsGet[LatestVersion] = "otherError"
       THEN UNCHANGED <<pc, code, epage>>
       ELSE IF dsGet[LatestVersion] # "nil"
       THEN Return(StatusNotFound, NilPage)
       ELSE Return(StatusSeeOther, OtherVersionsPage(namespace, path, version))
    /\ UNCHANGED <<namespace, path, version, dsExcluded, dsGet, exclCalls>>

\* lines 214-235: get(internal.LatestVersion)
RetryLatest ==
    /\ pc = "RetryLatest"
    /\ getLog' = Append(getLog, LatestVersion)
    /\ IF dsGet[LatestVersion] # "nil"
       THEN Return(StatusNotFound, NilPage)
       ELSE Return(StatusSeeOther, OtherVersionsPage(namespace, path, version))
    /\ UNCHANGED <<namespace, path, version, dsExcluded, dsGet, exclCalls>>

fetchPackageOrModule == Validating \/ CheckExcluded \/ Lookup \/ RetryLatest

----------------------------------------------------------------------------
(* Properties of fetchPackageOrModule *)

Returned == pc = "done"
AcceptedVersion == version = LatestVersion \/ IsValid(version)
SpecificVersion == version # LatestVersion /\ IsValid(version)

\* C1: a valid non-latest version on a non-excluded path whose first get
\* fails with not-found is looked up again with the latest sentinel; if that
\* second get succeeds the result is SeeOther with a non-nil error page, and
\* if it fails, with not-found or with any other error, the result is
\* NotFound with a nil page.
C1_RetryLatest ==
    (Returned /\ SpecificVersion /\ dsExcluded = "notExcluded"
        /\ dsGet[version] = "NotFound")
    => /\ getLog = <<version, LatestVersion>>
       /\ dsGet[LatestVersion] = "nil"
            => code = StatusSeeOther /\ ~epage.isNil
       /\ dsGet[LatestVersion] # "nil"
            => code = StatusNotFound /\ epage = NilPage

C1_Witness ==
    /\ Returned /\ SpecificVersion /\ dsExcluded = "notExcluded"
    /\ dsGet[version] = "NotFound" /\ dsGet[LatestVersion] = "otherError"
    /\ getLog = <<version, LatestVersion>>
    /\ code = StatusNotFound

\* what a caller sees for a path that is in no way known: BadRequest with
\* the invalid-version page for a version that is neither latest nor a
\* semantic version, NotFound with a nil page otherwise
AbsentResult ==
    IF AcceptedVersion
    THEN <<StatusNotFound, NilPage>>
    ELSE <<StatusBadRequest, InvalidVersionPage(namespace, path, version)>>

PathExcluded == dsExcluded = "excluded"
PathAbsent ==
    dsExcluded = "notExcluded" /\ \A v \in DOMAIN dsGet : dsGet[v] = "NotFound"

\* C2: for every path and version, the (code, page) returned for an excluded
\* path is the pair returned for a non-excluded path on which every get
\* fails with not-found (NotFound with a nil page when the version is valid
\* or latest), and for an excluded path get is never called.
C2_ExcludedLooksAbsent ==
    Returned =>
        /\ (PathExcluded \/ PathAbsent) => <<code, epage>> = AbsentResult
        /\ (PathExcluded /\ AcceptedVersion)
             => <<code, epage>> = <<StatusNotFound, NilPage>>
        /\ PathExcluded => getLog = <<>>

C2_Witness ==
    /\ Returned /\ PathExcluded /\ SpecificVersion
    /\ exclCalls = 1 /\ getLog = <<>>
    /\ code = StatusNotFound /\ epage = NilPage

\* C9: a version that is neither the latest sentinel nor a valid semantic
\* version is answered at once with BadRequest and a non-nil error page;
\* neither ds.IsExcluded nor get is called, whatever the DataSource holds.
C9_InvalidVersionRejected ==
    ~AcceptedVersion =>
        /\ pc \in {"Validating", "done"}
        /\ exclCalls = 0 /\ getLog = <<>>
        /\ Returned => code = StatusBadRequest /\ ~epage.isNil

C9_Witness ==
    /\ Returned /\ ~AcceptedVersion
    /\ PathExcluded /\ dsGet[version] = "nil"
    /\ code = StatusBadRequest /\ exclCalls = 0

\* C10: for a valid version and a non-excluded path the first get decides:
\* success gives OK with a nil page; an error other than not-found gives
\* InternalError with a nil page and no second get, also for a specific
\* version; not-found for the latest sentinel gives NotFound with a nil page.
C10_FirstLookup ==
    (Returned /\ AcceptedVersion /\ dsExcluded = "notExcluded") =>
        /\ dsGet[version] = "nil"
             => <<code, epage>> = <<StatusOK, NilPage>> /\ getLog = <<version>>
        /\ dsGet[version] = "otherError"
             => /\ <<code, epage>> = <<StatusInternalServerError, NilPage>>
                /\ getLog = <<version>>
        /\ (dsGet[version] = "NotFound" /\ version = LatestVersion)
             => <<code, epage>> = <<StatusNotFound, NilPage>>
                  /\ getLog = <<version>>

C10_Witness ==
    /\ Returned /\ SpecificVersion /\ dsExcluded = "notExcluded"
    /\ dsGet[version] = "otherError" /\ dsGet[LatestVersion] = "nil"
    /\ code = StatusInternalServerError /\ getLog = <<version>>

\* the terminal outcomes of fetchPackageOrModule
TerminalCodes ==
    {StatusBadRequest, StatusNotFound, StatusOK, StatusInternalServerError,
     StatusSeeOther}

\* C11: get is called at most twice; a second call is made only with the
\* latest sentinel and only after a first call with another version came back
\* not-found, and no call follows it; an execution that has not returned can
\* take a step, and one that has returned ends in exactly one of BadRequest,
\* NotFound, OK, InternalError and SeeOther.
C11_BoundedLookups ==
    /\ Len(getLog) <= 2
    /\ Len(getLog) >= 1 => getLog[1] = version
    /\ Len(getLog) = 2 =>
          /\ getLog[2] = LatestVersion
          /\ version # LatestVersion
          /\ dsGet[version] = "NotFound"
          /\ Returned
    /\ IF Returned THEN code \in TerminalCodes /\ ~ENABLED fetchPackageOrModule
       ELSE code = NoCode /\ ENABLED fetchPackageOrModule

C11_Witness ==
    /\ Returned /\ getLog = <<version, LatestVersion>>
    /\ dsGet[LatestVersion] = "nil"
    /\ code = StatusSeeOther /\ ~ENABLED fetchPackageOrModule

----------------------------------------------------------------------------
(* Strings as token sequences, and the strings functions the code calls *)

\* "/" and "@" are the separators; "!" is a character no import path may
\* hold; the others are runs of letters, digits and dots
Alphabet == {"/", "@", "std", "latest", "x.y", "v1.2.3", "!"}
\* the tokens that contain the character '.'
DotTokens == {"x.y", "v1.2.3"}
\* the tokens made only of characters an import path element may hold
ImportPathOK == {"std", "latest", "x.y", "v1.2.3"}

BoundedSeq(S, n) == UNION {[1..k -> S] : k \in 0..n}

\* strings.Index(s, t) + 1 for a one-token t; 0 when t is not in s
Index(s, t) ==
    IF \E i \in 1..Len(s) : s[i] = t
    THEN CHOOSE i \in 1..Len(s) : s[i] = t /\ \A j \in 1..(i - 1) : s[j] # t
    ELSE 0

\* strings.Contains(s, ".")
ContainsDot(s) == \E i \in 1..Len(s) : s[i] \in DotTokens

\* strings.SplitN(s, t, 2)
SplitN2(s, t) ==
    LET i == Index(s, t) IN
    IF i = 0 THEN <<s>> ELSE <<SubSeq(s, 1, i - 1), SubSeq(s, i + 1, Len(s))>>

\* strings.Split(s, t)
RECURSIVE Split(_, _)
Split(s, t) ==
    LET i == Index(s, t) IN
    IF i = 0 THEN <<s>>
    ELSE <<SubSeq(s, 1, i - 1)>> \o Split(SubSeq(s, i + 1, Len(s)), t)

\* strings.Join(elems, t)
RECURSIVE Join(_, _)
Join(elems, t) ==
    IF Len(elems) = 0 THEN <<>>
    ELSE IF Len(elems) = 1 THEN elems[1]
    ELSE elems[1] \o <<t>> \o Join(Tail(elems), t)

\* strings.TrimPrefix(s, t) and strings.TrimSuffix(s, t) for a one-token t
TrimPrefix(s, t) == IF Len(s) > 0 /\ s[1] = t THEN Tail(s) ELSE s
TrimSuffix(s, t) ==
    IF Len(s) > 0 /\ s[Len(s)] = t THEN SubSeq(s, 1, Len(s) - 1) ELSE s

----------------------------------------------------------------------------
(* parseDetailsURLPath *)

\* module.CheckImportPath(p) = nil: p is not empty and every "/"-separated
\* element is a non-empty run of import path characters
CheckImportPath(p) ==
    /\ p # <<>>
    /\ \A k \in 1..Len(Split(p, "/")) :
          LET elem == Split(p, "/")[k] IN
          /\ elem # <<>>
          /\ \A i \in 1..Len(elem) : elem[i] \in ImportPathOK

\* Faulty variant of inStdLib: the whole path is searched for a dot.
inStdLibWholePath(p) == ~ContainsDot(p)

\* inStdLib: no dot in the first path element
inStdLib(p) ==
    LET i == Index(p, "/") IN
    IF i # 0 THEN ~ContainsDot(SubSeq(p, 1, i - 1)) ELSE ~ContainsDot(p)

\* Faulty variant of parseNoVersion: the version is left empty.
parseNoVersionUnset(basePath) ==
    [modulePath |-> unknownModulePath, version |-> <<>>, pkgPath |-> basePath]

\* lines 360-363: the URL path holds no "@"
parseNoVersion(basePath) ==
    [modulePath |-> unknownModulePath,
     version |-> <<LatestVersion>>,
     pkgPath |-> basePath]

\* Faulty variant of parseWithVersion: "latest" followed by a suffix is
\* treated like a specific version.
parseWithVersionNoLatestCheck(basePath, rest) ==
    LET endParts == Split(rest, "/")
        suffix == Join(Tail(endParts), "/")
        ver == endParts[1]
    IN IF suffix = <<>>
       THEN [modulePath |-> unknownModulePath, version |-> ver,
             pkgPath |-> basePath]
       ELSE [modulePath |-> basePath, version |-> ver,
             pkgPath |-> basePath \o <<"/">> \o suffix]

\* lines 364-376: the version and the suffix, from what follows the "@"
parseWithVersion(basePath, rest) ==
    LET endParts == Split(rest, "/")
        suffix == Join(Tail(endParts), "/")
        ver == endParts[1]
    IN IF suffix = <<>> \/ ver = <<LatestVersion>>
       THEN [modulePath |-> unknownModulePath, version |-> ver,
             pkgPath |-> basePath]
       ELSE [modulePath |-> basePath, version |-> ver,
             pkgPath |-> basePath \o <<"/">> \o suffix]

\* the tuple returned with a non-nil error
ParseError == [err |-> TRUE, pkgPath |-> <<>>, modulePath |-> <<>>, version |-> <<>>]

\* Faulty variant of parseDetailsURLPath: a version that is neither latest
\* nor a semantic version is rejected as well.
parseDetailsURLPathChecksVersion(u) ==
    LET parts == SplitN2(u, "@")
        basePath == TrimSuffix(TrimPrefix(parts[1], "/"), "/")
        r == IF Len(parts) = 1 THEN parseNoVersion(basePath)
             ELSE parseWithVersion(basePath, parts[2])
    IN IF ~CheckImportPath(r.pkgPath) THEN ParseError
       ELSE IF r.version # <<LatestVersion>>
               /\ ~(Len(r.version) = 1 /\ IsValid(r.version[1]))
       THEN ParseError
       ELSE [err |-> FALSE, pkgPath |-> r.pkgPath,
             modulePath |-> IF inStdLib(r.pkgPath) THEN stdlibModulePath
                            ELSE r.modulePath,
             version |-> r.version]

\* lines 348-384
parseDetailsURLPath(u) ==
    LET parts == SplitN2(u, "@")
        basePath == TrimSuffix(TrimPrefix(parts[1], "/"), "/")
        r == IF Len(parts) = 1 THEN parseNoVersion(basePath)
             ELSE parseWithVersion(basePath, parts[2])
    IN IF ~CheckImportPath(r.pkgPath) THEN ParseError
       ELSE [err |-> FALSE, pkgPath |-> r.pkgPath,
             modulePath |-> IF inStdLib(r.pkgPath) THEN stdlibModulePath
                            ELSE r.modulePath,
             version |-> r.version]

\* r.URL.Path of a request: "/" and up to MaxLen - 1 more tokens
URLPaths == {<<"/">> \o s : s \in BoundedSeq(Alphabet, MaxLen - 1)}

ParseIdle == urlPath = <<>> /\ parsed = [returned |-> FALSE]

\* URL paths of the documented shape /<module-path>@<version>/<suffix>, with
\* and without a trailing "/"
ExamplePaths ==
    { <<"/", "x.y", "/", "std", "@", "v1.2.3", "/", "std">>,
      <<"/", "x.y", "/", "std", "@", "v1.2.3", "/", "std", "/">>,
      <<"/", "x.y", "@", "v1.2.3", "/", "std", "/">>,
      <<"/", "x.y", "/", "std", "@", "v1.2.3", "/">>,
      <<"/", "std", "/", "std", "@", "latest", "/", "std", "/">> }

ParseInit ==
    /\ urlPath \in URLPaths \cup ExamplePaths
    /\ parsed = [returned |-> FALSE]

\* the call parseDetailsURLPath(r.URL.Path) of lines 63 and 264
ParseCall ==
    /\ ~parsed.returned
    /\ parsed' = [returned |-> TRUE, result |-> parseDetailsURLPath(urlPath)]
    /\ UNCHANGED urlPath

----------------------------------------------------------------------------
(* constructPackageURL, and the request for the URL it returns *)

\* strings.TrimPrefix(s, prefix) for a prefix of several tokens
TrimPrefixStr(s, prefix) ==
    IF Len(s) >= Len(prefix) /\ SubSeq(s, 1, Len(prefix)) = prefix
    THEN SubSeq(s, Len(prefix) + 1, Len(s))
    ELSE s

\* Faulty variant of constructPackageURL: a package at the root of its
\* module is not told apart.
constructPackageURLNoRootCase(pkgPath, modulePath, ver) ==
    IF ver = <<LatestVersion>> THEN <<"/">> \o pkgPath
    ELSE IF modulePath = stdlibModulePath
    THEN <<"/">> \o pkgPath \o <<"@">> \o ver
    ELSE <<"/">> \o modulePath \o <<"@">> \o ver \o <<"/">>
            \o TrimPrefixStr(pkgPath, modulePath \o <<"/">>)

\* lines 156-164
constructPackageURL(pkgPath, modulePath, ver) ==
    IF ver = <<LatestVersion>> THEN <<"/">> \o pkgPath
    ELSE IF pkgPath = modulePath \/ modulePath = stdlibModulePath
    THEN <<"/">> \o pkgPath \o <<"@">> \o ver
    ELSE <<"/">> \o modulePath \o <<"@">> \o ver \o <<"/">>
            \o TrimPrefixStr(pkgPath, modulePath \o <<"/">>)

\* package paths: the well-formed import paths of up to MaxLen - 1 tokens
PkgPaths ==
    {p \in BoundedSeq(ImportPathOK \cup {"/"}, MaxLen - 1) : CheckImportPath(p)}

\* the module paths of a package: the standard library, the package path
\* itself, and what precedes a "/" of the package path
ModulePathsOf(p) ==
    {stdlibModulePath, p}
        \cup {SubSeq(p, 1, i - 1) : i \in {j \in 1..Len(p) : p[j] = "/"}}

\* versions of a package: the latest sentinel and a semantic version
PkgVersions == {<<LatestVersion>>, <<"v1.2.3">>}

URLIdle ==
    /\ pkgPathArg = <<>> /\ modulePathArg = <<>> /\ versionArg = <<>>
    /\ urlBuilt = FALSE

URLInit ==
    /\ pkgPathArg \in PkgPaths
    /\ modulePathArg \in ModulePathsOf(pkgPathArg)
    /\ versionArg \in PkgVersions
    /\ urlBuilt = FALSE
    /\ urlPath = <<>> /\ parsed = [returned |-> FALSE]

\* the call constructPackageURL(pkg.Path, vi.ModulePath, vi.Version), line 534
ConstructPackageURL ==
    /\ ~urlBuilt
    /\ urlBuilt' = TRUE
    /\ urlPath' = constructPackageURL(pkgPathArg, modulePathArg, versionArg)
    /\ UNCHANGED <<pkgPathArg, modulePathArg, versionArg, parsed>>

\* the request for the constructed URL reaches parseDetailsURLPath
ParseConstructed ==
    /\ urlBuilt
    /\ ParseCall
    /\ UNCHANGED urlVars

----------------------------------------------------------------------------
(* Properties of parseDetailsURLPath *)

\* the part of s before the first t (all of s when it holds no t), and the
\* part after it (empty when s holds no t)
Before(s, t) ==
    SubSeq(s, 1, Cardinality({i \in 1..Len(s) : \A j \in 1..i : s[j] # t}))
After(s, t) == SubSeq(s, Len(Before(s, t)) + 2, Len(s))

\* s without one leading and one trailing "/"
Stripped(s) ==
    LET lo == IF Len(s) >= 1 /\ s[1] = "/" THEN 2 ELSE 1
        hi == IF Len(s) >= lo /\ s[Len(s)] = "/" THEN Len(s) - 1 ELSE Len(s)
    IN SubSeq(s, lo, hi)

HasAt(u) == \E i \in 1..Len(u) : u[i] = "@"
FirstElemHasDot(p) == ContainsDot(Before(p, "/"))

\* the pieces of the URL path /<base>[@<version>[/<suffix>]]
UrlBase == Stripped(Before(urlPath, "@"))
UrlVersion == Before(After(urlPath, "@"), "/")
UrlSuffix == After(After(urlPath, "@"), "/")
ModuleKnown == UrlSuffix # <<>> /\ UrlVersion # <<LatestVersion>>
UrlPkgPath ==
    IF ~HasAt(urlPath) THEN Stripped(urlPath)
    ELSE IF ModuleKnown THEN UrlBase \o <<"/">> \o UrlSuffix
    ELSE UrlBase

ParseOK == parsed.returned /\ ~parsed.result.err

\* C5: for a URL path with an "@" whose package path is well-formed and
\* outside the standard library, the version is the first "/"-segment after
\* the first "@"; with a non-empty suffix and a version other than latest
\* modulePath is the base path and packagePath is base + "/" + suffix;
\* otherwise modulePath is unknown, packagePath is the base path and the
\* suffix is dropped.
C5_VersionedPath ==
    (parsed.returned /\ HasAt(urlPath) /\ CheckImportPath(UrlPkgPath)
        /\ FirstElemHasDot(UrlPkgPath))
    => /\ ~parsed.result.err
       /\ parsed.result.version = UrlVersion
       /\ IF ModuleKnown
          THEN /\ parsed.result.modulePath = UrlBase
               /\ parsed.result.pkgPath = UrlBase \o <<"/">> \o UrlSuffix
          ELSE /\ parsed.result.modulePath = unknownModulePath
               /\ parsed.result.pkgPath = UrlBase

C5_Witness ==
    /\ ParseOK /\ HasAt(urlPath)
    /\ UrlSuffix # <<>> /\ UrlVersion = <<LatestVersion>>
    /\ parsed.result.modulePath = unknownModulePath
    /\ parsed.result.pkgPath = UrlBase

\* C6 as stated: for every well-formed URL path without "@", modulePath is
\* unknown, version is latest and packagePath is the path without its
\* leading and trailing "/".
C6_NoVersionUnknownModule ==
    (parsed.returned /\ ~HasAt(urlPath) /\ CheckImportPath(Stripped(urlPath)))
    => /\ ~parsed.result.err
       /\ parsed.result.modulePath = unknownModulePath
       /\ parsed.result.version = <<LatestVersion>>
       /\ parsed.result.pkgPath = Stripped(urlPath)

\* C6 amended: for every well-formed URL path without "@", version is
\* latest, packagePath is the path without its leading and trailing "/",
\* and modulePath is unknown, or the standard-library sentinel when the
\* first element of packagePath holds no dot.
C6_NoVersion ==
    (parsed.returned /\ ~HasAt(urlPath) /\ CheckImportPath(Stripped(urlPath)))
    => /\ ~parsed.result.err
       /\ parsed.result.modulePath =
            IF FirstElemHasDot(Stripped(urlPath)) THEN unknownModulePath
            ELSE stdlibModulePath
       /\ parsed.result.version = <<LatestVersion>>
       /\ parsed.result.pkgPath = Stripped(urlPath)

C6_Witness ==
    /\ ParseOK /\ ~HasAt(urlPath)
    /\ Len(urlPath) > 2 /\ urlPath[Len(urlPath)] = "/"
    /\ parsed.result.pkgPath = SubSeq(urlPath, 2, Len(urlPath) - 1)
    /\ parsed.result.modulePath = unknownModulePath
    /\ parsed.result.version = <<LatestVersion>>

\* C7: whenever parseDetailsURLPath succeeds, modulePath is the
\* standard-library sentinel exactly when the first "/"-separated element of
\* packagePath holds no dot, with or without a version and a suffix.
C7_StdLibIffNoDot ==
    ParseOK =>
        (parsed.result.modulePath = stdlibModulePath
            <=> ~FirstElemHasDot(parsed.result.pkgPath))

C7_Witness ==
    /\ ParseOK /\ HasAt(urlPath) /\ ModuleKnown
    /\ UrlBase # stdlibModulePath /\ UrlVersion # <<>>
    /\ ContainsDot(parsed.result.pkgPath)
    /\ parsed.result.modulePath = stdlibModulePath

\* C8: parseDetailsURLPath fails exactly when the package path it computes
\* is not a well-formed import path, and then returns three empty strings;
\* the version never makes it fail: whatever follows the "@" is returned as
\* the version.
C8_ErrorIffMalformedPath ==
    parsed.returned =>
        /\ parsed.result.err <=> ~CheckImportPath(UrlPkgPath)
        /\ parsed.result.err =>
             /\ parsed.result.pkgPath = <<>>
             /\ parsed.result.modulePath = <<>>
             /\ parsed.result.version = <<>>
        /\ (~parsed.result.err /\ HasAt(urlPath))
             => parsed.result.version = UrlVersion

C8_Witness ==
    /\ ParseOK /\ HasAt(urlPath)
    /\ \E i \in 1..Len(parsed.result.version) : parsed.result.version[i] = "!"
    /\ parsed.result.version = UrlVersion

\* the URL path is some p that does not end in "/", followed by "/"
EndsInOneSlash ==
    /\ Len(urlPath) >= 1 /\ urlPath[Len(urlPath)] = "/"
    /\ Len(urlPath) >= 2 => urlPath[Len(urlPath) - 1] # "/"
WithoutLastSlash == SubSeq(urlPath, 1, Len(urlPath) - 1)

\* C14: one leading and one trailing "/" of the URL path are stripped, so for
\* every URL path p that does not end in "/" the result for p followed by
\* "/" is the result for p, also when p ends with a version or with a
\* suffix after the version.
C14_TrailingSlashIgnored ==
    (parsed.returned /\ EndsInOneSlash)
    => parsed.result = parseDetailsURLPath(WithoutLastSlash)

----------------------------------------------------------------------------
(* Properties of the round trip *)

\* C16: for every well-formed pkgPath, every modulePath that is the
\* standard-library sentinel, pkgPath itself or what precedes a "/" of
\* pkgPath, and the latest or a specific version, parseDetailsURLPath of
\* constructPackageURL(pkgPath, modulePath, version) succeeds and returns the
\* same pkgPath and version, and a modulePath that is the given one, the
\* unknown sentinel, or the standard-library sentinel for a package of the
\* standard library.
C16_RoundTrip ==
    (urlBuilt /\ parsed.returned) =>
        /\ ~parsed.result.err
        /\ parsed.result.pkgPath = pkgPathArg
        /\ parsed.result.version = versionArg
        /\ \/ parsed.result.modulePath = modulePathArg
           \/ parsed.result.modulePath = unknownModulePath
           \/ /\ parsed.result.modulePath = stdlibModulePath
              /\ ~FirstElemHasDot(pkgPathArg)

C16_Witness ==
    /\ urlBuilt /\ ParseOK
    /\ FirstElemHasDot(pkgPathArg)
    /\ Len(modulePathArg) < Len(pkgPathArg) /\ modulePathArg # stdlibModulePath
    /\ versionArg # <<LatestVersion>>
    /\ HasAt(urlPath)
    /\ parsed.result.modulePath = modulePathArg
    /\ parsed.result.pkgPath = pkgPathArg

----------------------------------------------------------------------------
(* createModule and the redistributability verdict *)

\* a license record: its type and the path of its file, a clean relative
\* path as a token sequence
License(t, fp) == [Type |-> t, FilePath |-> fp]

\* the inputs of TestLicensesAreRedistributable with the verdicts it wants
TestCases ==
    { [licenses |-> <<License("MIT", <<"LICENSE">>)>>, want |-> TRUE],
      [licenses |-> <<License("MIT", <<"bar", "/", "LICENSE">>)>>,
       want |-> FALSE],
      [licenses |-> <<>>, want |-> FALSE],
      [licenses |-> <<License("AGPL-3.0", <<"LICENSE">>)>>, want |-> FALSE],
      [licenses |-> <<License("BSD-3-Clause", <<"LICENSE">>),
                      License("MIT", <<"bar", "/", "LICENSE">>)>>,
       want |-> TRUE],
      [licenses |-> <<License("BSD-3-Clause", <<"LICENSE">>),
                      License("AGPL-3.0", <<"foo", "/", "LICENSE">>),
                      License("MIT", <<"foo", "/", "bar", "/", "LICENSE">>)>>,
       want |-> FALSE],
      [licenses |-> <<License("BSD-3-Clause", <<"LICENSE">>),
                      License("BSD-0-Clause", <<"LICENSE.txt">>),
                      License("AGPL-3.0", <<"foo", "/", "LICENSE">>),
                      License("MIT", <<"foo", "/", "COPYING">>)>>,
       want |-> TRUE] }

\* the allow-list of license types that permit redistribution
RedistributableTypes == {"MIT", "BSD-3-Clause", "BSD-0-Clause"}

\* the records the model draws license sets from, besides the test inputs
LicenseTypes == {"MIT", "AGPL-3.0"}
FilePaths ==
    { <<"LICENSE">>, <<"COPYING">>,
      <<"foo", "/", "LICENSE">>, <<"foo", "/", "COPYING">>,
      <<"foo", "/", "bar", "/", "LICENSE">> }
LicenseRecords == {License(t, fp) : t \in LicenseTypes, fp \in FilePaths}

\* strings.LastIndex(s, "/") + 1; 0 when s holds no "/"
LastSlash(s) ==
    IF \E i \in 1..Len(s) : s[i] = "/"
    THEN CHOOSE i \in 1..Len(s) :
            s[i] = "/" /\ \A j \in (i + 1)..Len(s) : s[j] # "/"
    ELSE 0

\* path.Dir(fp) for a clean path: all but the last element, "." when there
\* is only one
Dir(fp) ==
    LET i == LastSlash(fp) IN
    IF i = 0 THEN <<".">>
    ELSE IF i = 1 THEN <<"/">>
    ELSE SubSeq(fp, 1, i - 1)

\* the records grouped by directory: a directory maps to TRUE when one of
\* its records has an allow-listed type, to FALSE when none has
RECURSIVE DirVerdicts(_, _)
DirVerdicts(lics, dirs) ==
    IF lics = <<>> THEN dirs
    ELSE LET l == Head(lics)
             dir == Dir(l.FilePath)
         IN DirVerdicts(Tail(lics),
                IF l.Type \in RedistributableTypes THEN (dir :> TRUE) @@ dirs
                ELSE IF dir \in DOMAIN dirs THEN dirs
                ELSE (dir :> FALSE) @@ dirs)

\* Variant of AreRedistributable without the root directory rule: every
\* directory that has records is compliant and there is a record at all.
AreRedistributablePerDirectoryOnly(lics) ==
    LET dirs == DirVerdicts(lics, <<>>) IN
    /\ lics # <<>>
    /\ \A d \in DOMAIN dirs : dirs[d]

\* license.AreRedistributable (licensesAreRedistributable in the test): the
\* root directory holds an allow-listed license, and so does every directory
\* that holds a license at all
AreRedistributable(lics) ==
    LET dirs == DirVerdicts(lics, <<>>) IN
    /\ <<".">> \in DOMAIN dirs /\ dirs[<<".">>]
    /\ \A d \in DOMAIN dirs : dirs[d]

\* Faulty variant of createModule: like createPackage does for its module
\* header, only the licenses of the root directory are considered.
createModuleRootLicenses(lics) ==
    [returned |-> TRUE,
     IsRedistributable |->
        AreRedistributable(SelectSeq(lics, LAMBDA l : Dir(l.FilePath) = <<".">>)),
     Licenses |-> lics]

\* createModule, lines 540-550: the fields that depend on licmetas
createModule(lics) ==
    [returned |-> TRUE,
     IsRedistributable |-> AreRedistributable(lics),
     Licenses |-> lics]

LicenseIdle == licmetas = <<>> /\ module = [returned |-> FALSE]

LicenseInit ==
    /\ licmetas \in {t.licenses : t \in TestCases}
                        \cup BoundedSeq(LicenseRecords, MaxLicenses)
    /\ module = [returned |-> FALSE]

\* the call createModule(moduleVersion, license.ToMetadatas(licenses))
CreateModule ==
    /\ ~module.returned
    /\ module' = createModule(licmetas)
    /\ UNCHANGED licmetas

----------------------------------------------------------------------------
(* Properties of the redistributability verdict *)

\* the directory of a file path as the tokens before its last "/": empty for
\* a file of the root directory
Parent(fp) ==
    SubSeq(fp, 1,
           Len(fp) - Cardinality({i \in 1..Len(fp) :
                                    \A j \in i..Len(fp) : fp[j] # "/"}) - 1)

AllowListed(l) == l.Type \in RedistributableTypes
Records == {licmetas[i] : i \in 1..Len(licmetas)}

\* every directory that holds a record holds an allow-listed one
EveryDirCompliant ==
    \A l \in Records :
        \E k \in Records : Parent(k.FilePath) = Parent(l.FilePath) /\ AllowListed(k)

\* the root directory holds an allow-listed record
RootCompliant == \E l \in Records : Parent(l.FilePath) = <<>> /\ AllowListed(l)

----------------------------------------------------------------------------
(* The tab registries and the detail fetchers *)

TabSettings(name, display, always, template) ==
    [Name |-> name, DisplayName |-> display, AlwaysShowDetails |-> always,
     TemplateName |-> template]

packageTabSettings ==
    << TabSettings("doc", "Doc", FALSE, "pkg_doc.tmpl"),
       TabSettings("readme", "README", FALSE, "readme.tmpl"),
       TabSettings("subdirectories", "Subdirectories", TRUE, "subdirectories.tmpl"),
       TabSettings("versions", "Versions", TRUE, "versions.tmpl"),
       TabSettings("imports", "Imports", TRUE, "pkg_imports.tmpl"),
       TabSettings("importedby", "Imported By", TRUE, "pkg_importedby.tmpl"),
       TabSettings("licenses", "Licenses", FALSE, "licenses.tmpl") >>

moduleTabSettings ==
    << TabSettings("readme", "README", FALSE, "readme.tmpl"),
       TabSettings("packages", "Packages", TRUE, "subdirectories.tmpl"),
       TabSettings("versions", "Versions", TRUE, "versions.tmpl"),
       TabSettings("licenses", "Licenses", FALSE, "licenses.tmpl") >>

\* the map that init() fills from a settings list: a later entry of the
\* list replaces an earlier one of the same name
TabLookup(list) ==
    [n \in {list[i].Name : i \in 1..Len(list)} |->
        list[CHOOSE i \in 1..Len(list) :
                list[i].Name = n /\ \A j \in (i + 1)..Len(list) : list[j].Name # n]]

packageTabLookup == TabLookup(packageTabSettings)
moduleTabLookup == TabLookup(moduleTabSettings)

\* the cases of the switch of fetchDetailsForPackage, in order
packageFetchCases ==
    << <<"doc", "fetchDocumentationDetails">>,
       <<"versions", "fetchPackageVersionsDetails">>,
       <<"subdirectories", "fetchPackageDirectoryDetails">>,
       <<"imports", "fetchImportsDetails">>,
       <<"importedby", "fetchImportedByDetails">>,
       <<"licenses", "fetchPackageLicensesDetails">>,
       <<"readme", "fetchReadMeDetails">> >>

\* the cases of the switch of fetchDetailsForModule, in order
moduleFetchCases ==
    << <<"packages", "fetchModuleDirectoryDetails">>,
       <<"licenses", "transformLicenses">>,
       <<"versions", "fetchModuleVersionsDetails">>,
       <<"readme", "fetchReadMeDetails">> >>

\* a switch over string cases: the function of the first matching case, or
\* the fall-through to the BUG error
UnknownTab == "BUG: unable to fetch details: unknown tab"
Switch(cases, t) ==
    IF \E i \in 1..Len(cases) : cases[i][1] = t
    THEN cases[CHOOSE i \in 1..Len(cases) :
                  cases[i][1] = t /\ \A j \in 1..(i - 1) : cases[j][1] # t][2]
    ELSE UnknownTab

fetchDetailsForPackage(t) == Switch(packageFetchCases, t)

\* Faulty variant of fetchDetailsForModule: the switch has no "readme" case.
fetchDetailsForModuleNoReadme(t) ==
    Switch(SelectSeq(moduleFetchCases, LAMBDA c : c[1] # "readme"), t)

fetchDetailsForModule(t) == Switch(moduleFetchCases, t)

----------------------------------------------------------------------------
(* servePackagePage and handleModuleDetails *)

\* values of the tab query parameter: every registered name, a name of no
\* registry, and the empty string of a missing parameter
TabParams ==
    {packageTabSettings[i].Name : i \in 1..Len(packageTabSettings)}
        \cup {moduleTabSettings[i].Name : i \in 1..Len(moduleTabSettings)}
        \cup {"", "overview"}

NoSettings == TabSettings("", "", FALSE, "")
NilDetails == [isNil |-> TRUE]
NotServed == [kind |-> "none"]

PageIdle ==
    /\ hpc = "idle" /\ hns = "" /\ tabParam = "" /\ pkgRedist = FALSE
    /\ fetchAnswer = "nil"
    /\ tab = "" /\ settings = NoSettings /\ canShowDetails = FALSE
    /\ details = NilDetails /\ fetchLog = <<>> /\ served = NotServed

\* a package page starts with pkg fetched; a module page with the module's
\* licenses fetched (line 283)
PageInit ==
    /\ hpc = "selectTab"
    /\ hns \in Namespaces
    /\ tabParam \in TabParams
    /\ pkgRedist \in (IF hns = "pkg" THEN BOOLEAN ELSE {FALSE})
    /\ licmetas \in (IF hns = "mod" THEN {t.licenses : t \in TestCases} ELSE {<<>>})
    /\ module = [returned |-> FALSE]
    /\ fetchAnswer \in {"nil", "error"}
    /\ tab = "" /\ settings = NoSettings /\ canShowDetails = FALSE
    /\ details = NilDetails /\ fetchLog = <<>> /\ served = NotServed

\* Faulty variant of PkgSelectTab: the default tab is "doc" whatever the
\* redistributability verdict.
PkgSelectTabAlwaysDoc ==
    /\ hpc = "selectTab" /\ hns = "pkg"
    /\ LET ok == tabParam \in DOMAIN packageTabLookup
           t == IF ok THEN tabParam ELSE "doc"
           st == packageTabLookup[t]
       IN /\ tab' = t
          /\ settings' = st
          /\ canShowDetails' = (pkgRedist \/ st.AlwaysShowDetails)
          /\ hpc' = IF pkgRedist \/ st.AlwaysShowDetails THEN "fetchDetails"
                    ELSE "servePage"
    /\ UNCHANGED <<hns, tabParam, pkgRedist, fetchAnswer, details, fetchLog,
                   served, licenseVars>>

\* servePackagePage, lines 108-121
PkgSelectTab ==
    /\ hpc = "selectTab" /\ hns = "pkg"
    /\ LET ok == tabParam \in DOMAIN packageTabLookup
           t == IF ok THEN tabParam
                ELSE IF pkgRedist THEN "doc" ELSE "subdirectories"
           st == packageTabLookup[t]
       IN /\ tab' = t
          /\ settings' = st
          /\ canShowDetails' = (pkgRedist \/ st.AlwaysShowDetails)
          /\ hpc' = IF pkgRedist \/ st.AlwaysShowDetails THEN "fetchDetails"
                    ELSE "servePage"
    /\ UNCHANGED <<hns, tabParam, pkgRedist, fetchAnswer, details, fetchLog,
                   served, licenseVars>>

\* Faulty variant of ModSelectTab: AlwaysShowDetails is not consulted.
ModSelectTabIgnoresAlways ==
    /\ hpc = "selectTab" /\ hns = "mod"
    /\ LET ok == tabParam \in DOMAIN moduleTabLookup
           t == IF ok THEN tabParam ELSE "readme"
           st == moduleTabLookup[t]
           modHeader == createModule(licmetas)
       IN /\ tab' = t
          /\ settings' = st
          /\ module' = modHeader
          /\ canShowDetails' = modHeader.IsRedistributable
          /\ hpc' = IF modHeader.IsRedistributable THEN "fetchDetails"
                    ELSE "servePage"
    /\ UNCHANGED <<hns, tabParam, pkgRedist, fetchAnswer, details, fetchLog,
                   served, licmetas>>

\* handleModuleDetails, lines 290-300
ModSelectTab ==
    /\ hpc = "selectTab" /\ hns = "mod"
    /\ LET ok == tabParam \in DOMAIN moduleTabLookup
           t == IF ok THEN tabParam ELSE "readme"
           st == moduleTabLookup[t]
           modHeader == createModule(licmetas)
       IN /\ tab' = t
          /\ settings' = st
          /\ module' = modHeader
          /\ canShowDetails' = (modHeader.IsRedistributable \/ st.AlwaysShowDetails)
          /\ hpc' = IF modHeader.IsRedistributable \/ st.AlwaysShowDetails
                    THEN "fetchDetails" ELSE "servePage"
    /\ UNCHANGED <<hns, tabParam, pkgRedist, fetchAnswer, details, fetchLog,
                   served, licmetas>>

\* what the call of a detail fetcher leaves: the unknown-tab error, the
\* fetcher's own error and the 500 page, or the details
FetchOutcome(fn) ==
    /\ fetchLog' = Append(fetchLog, <<hns, tab, fn>>)
    /\ IF fn = UnknownTab \/ fetchAnswer = "error"
       THEN /\ served' = [kind |-> "error", code |-> StatusInternalServerError]
            /\ hpc' = "done"
            /\ UNCHANGED details
       ELSE /\ details' = [isNil |-> FALSE, from |-> fn]
            /\ hpc' = "servePage"
            /\ UNCHANGED served

\* servePackagePage, lines 121-129
PkgFetchDetails ==
    /\ hpc = "fetchDetails" /\ hns = "pkg"
    /\ FetchOutcome(fetchDetailsForPackage(tab))
    /\ UNCHANGED <<hns, tabParam, pkgRedist, fetchAnswer, tab, settings,
                   canShowDetails, licenseVars>>

\* handleModuleDetails, lines 300-308
ModFetchDetails ==
    /\ hpc = "fetchDetails" /\ hns = "mod"
    /\ FetchOutcome(fetchDetailsForModule(tab))
    /\ UNCHANGED <<hns, tabParam, pkgRedist, fetchAnswer, tab, settings,
                   canShowDetails, licenseVars>>

\* the DetailsPage handed to s.servePage with settings.TemplateName
DetailsPage(header, tabs) ==
    [kind |-> "page",
     template |-> settings.TemplateName,
     Settings |-> settings,
     Header |-> header,
     Details |-> details,
     CanShowDetails |-> canShowDetails,
     Tabs |-> tabs,
     Namespace |-> hns]

\* servePackagePage, lines 131-141; the header is that of createPackage
PkgServePage ==
    /\ hpc = "servePage" /\ hns = "pkg"
    /\ served' = DetailsPage([returned |-> TRUE, IsRedistributable |-> pkgRedist],
                             packageTabSettings)
    /\ hpc' = "done"
    /\ UNCHANGED <<hns, tabParam, pkgRedist, fetchAnswer, tab, settings,
                   canShowDetails, details, fetchLog, licenseVars>>

\* handleModuleDetails, lines 309-319
ModServePage ==
    /\ hpc = "servePage" /\ hns = "mod"
    /\ served' = DetailsPage(module, moduleTabSettings)
    /\ hpc' = "done"
    /\ UNCHANGED <<hns, tabParam, pkgRedist, fetchAnswer, tab, settings,
                   canShowDetails, details, fetchLog, licenseVars>>

----------------------------------------------------------------------------
(* Properties of the page handlers *)

TabList == IF hns = "pkg" THEN packageTabSettings ELSE moduleTabSettings
Entries(list) == {list[i] : i \in 1..Len(list)}
Names(list) == {e.Name : e \in Entries(list)}
TabSelected == hpc \in {"fetchDetails", "servePage", "done"}

\* the verdict on the entity of the page: pkg.IsRedistributable() for a
\* package, the verdict on the module's licenses for a module
EntityRedistributable ==
    IF hns = "pkg" THEN pkgRedist ELSE RootCompliant /\ EveryDirCompliant

DefaultTab ==
    IF hns = "mod" THEN "readme"
    ELSE IF EntityRedistributable THEN "doc" ELSE "subdirectories"

\* C12: a tab name that is missing or not in the registry of the namespace
\* selects "doc" on the page of a redistributable package, "subdirectories"
\* on that of another package and "readme" on a module page; a name of the
\* registry selects that tab with its settings.
C12_TabSelection ==
    TabSelected =>
        /\ tab = IF tabParam \in Names(TabList) THEN tabParam ELSE DefaultTab
        /\ settings \in Entries(TabList)
        /\ settings.Name = tab
        /\ served.kind = "page" => served.Settings = settings

C12_Witness ==
    /\ hpc = "done" /\ hns = "pkg" /\ ~pkgRedist
    /\ tabParam = "packages"
    /\ tab = "subdirectories" /\ served.kind = "page"
    /\ served.Settings.TemplateName = "subdirectories.tmpl"

\* C13: the detail fetcher of the tab is called exactly when the entity is
\* redistributable or the selected tab is marked AlwaysShowDetails; when it
\* is not called the page is served all the same, with nil Details,
\* CanShowDetails false, the whole tab list and the header.
C13_DetailsOnlyWhenAllowed ==
    LET allowed == EntityRedistributable \/ settings.AlwaysShowDetails IN
    TabSelected =>
        /\ Len(fetchLog) <= 1
        /\ fetchLog # <<>> => allowed
        /\ hpc \in {"servePage", "done"} => (allowed => fetchLog # <<>>)
        /\ (hpc = "done" /\ ~allowed) =>
              /\ served.kind = "page"
              /\ served.Details = NilDetails
              /\ served.CanShowDetails = FALSE
              /\ served.Tabs = TabList
              /\ served.Header.returned
              /\ served.Header.IsRedistributable = FALSE
              /\ served.template = settings.TemplateName

C13_Witness ==
    /\ hpc = "done" /\ hns = "mod"
    /\ ~EntityRedistributable /\ tab = "licenses"
    /\ fetchLog = <<>>
    /\ served.kind = "page" /\ served.Details = NilDetails
    /\ Len(served.Tabs) = Len(moduleTabSettings)

\* the cases of a switch that match a tab name
Matching(cases, t) == {i \in 1..Len(cases) : cases[i][1] = t}

\* C15: the unknown-tab error is not reached from the page handlers: for
\* every value of the tab parameter and either verdict the tab name handed
\* to fetchDetailsForPackage or fetchDetailsForModule is a name of the
\* registry and has a fetch case, and every name of packageTabSettings and
\* moduleTabSettings has exactly one fetch case of its namespace.
C15_NoUnknownTab ==
    /\ \A i \in 1..Len(fetchLog) :
          /\ fetchLog[i][2] \in Names(TabList)
          /\ fetchLog[i][3] # UnknownTab
    /\ \A n \in Names(packageTabSettings) :
          Cardinality(Matching(packageFetchCases, n)) = 1
    /\ \A n \in Names(moduleTabSettings) :
          Cardinality(Matching(moduleFetchCases, n)) = 1

C15_Witness ==
    /\ hpc = "done" /\ hns = "mod" /\ tabParam = "doc"
    /\ fetchLog = << <<"mod", "readme", "fetchReadMeDetails">> >>
    /\ served.kind = "page" /\ ~served.Details.isNil

----------------------------------------------------------------------------
(* Specifications *)

Init == FetchInit /\ ParseIdle /\ LicenseIdle /\ PageIdle /\ URLIdle

Next ==
    \/ Validating /\ UNCHANGED <<parseVars, licenseVars, pageVars, urlVars>>
    \/ CheckExcluded /\ UNCHANGED <<parseVars, licenseVars, pageVars, urlVars>>
    \/ Lookup /\ UNCHANGED <<parseVars, licenseVars, pageVars, urlVars>>
    \/ RetryLatest /\ UNCHANGED <<parseVars, licenseVars, pageVars, urlVars>>

Spec == Init /\ [][Next]_vars

InitParse == FetchIdle /\ ParseInit /\ LicenseIdle /\ PageIdle /\ URLIdle

NextParse == ParseCall /\ UNCHANGED <<fetchVars, licenseVars, pageVars, urlVars>>

SpecParse == InitParse /\ [][NextParse]_vars

InitLicense == FetchIdle /\ ParseIdle /\ LicenseInit /\ PageIdle /\ URLIdle

NextLicense == CreateModule /\ UNCHANGED <<fetchVars, parseVars, pageVars, urlVars>>

SpecLicense == InitLicense /\ [][NextLicense]_vars

InitPage == FetchIdle /\ ParseIdle /\ PageInit /\ URLIdle

NextPage ==
    \/ PkgSelectTab /\ UNCHANGED <<fetchVars, parseVars, urlVars>>
    \/ PkgFetchDetails /\ UNCHANGED <<fetchVars, parseVars, urlVars>>
    \/ PkgServePage /\ UNCHANGED <<fetchVars, parseVars, urlVars>>
    \/ ModSelectTab /\ UNCHANGED <<fetchVars, parseVars, urlVars>>
    \/ ModFetchDetails /\ UNCHANGED <<fetchVars, parseVars, urlVars>>
    \/ ModServePage /\ UNCHANGED <<fetchVars, parseVars, urlVars>>

SpecPage == InitPage /\ [][NextPage]_vars

InitURL == FetchIdle /\ LicenseIdle /\ PageIdle /\ URLInit

NextURL ==
    \/ ConstructPackageURL /\ UNCHANGED <<fetchVars, licenseVars, pageVars>>
    \/ ParseConstructed /\ UNCHANGED <<fetchVars, licenseVars, pageVars>>

SpecURL == InitURL /\ [][NextURL]_vars

====
